---------------------------- MODULE Spec2Model ----------------------------
(***************************************************************************)
(* Model of the subcontract reconciliation service:                        *)
(*   src/app.py               validate        (file-upload /validate)      *)
(*   src/appsecond.py         validate        (remote-fetch /validate)     *)
(*   src/validation_engine.py validate_store  (extended engine)            *)
(*                                                                         *)
(* Each handler is a synchronous function of its request, so each is one   *)
(* action.  pandas values are modelled as follows.                         *)
(*   - text is a sequence of tokens; the token " " is whitespace           *)
(*   - a cell is NaN, a text or a number (an exact rational n/d; float     *)
(*     rounding of sums and means is not modelled)                         *)
(*   - a DataFrame is a sequence of column names and a sequence of rows,   *)
(*     each row a sequence of cells in column order                        *)
(***************************************************************************)
EXTENDS Integers, Sequences, FiniteSets

VARIABLES entry, pc, issue_file, received_file, route_card, supplier,
          issue_grouped, received_grouped, merged, mismatch_df, response

vars == <<entry, pc, issue_file, received_file, route_card, supplier,
          issue_grouped, received_grouped, merged, mismatch_df, response>>

(***************************************************************************)
(* Text                                                                    *)
(***************************************************************************)
WS == " "

RECURSIVE LStrip(_)
LStrip(s) == IF s # <<>> /\ Head(s) = WS THEN LStrip(Tail(s)) ELSE s

RECURSIVE RStrip(_)
RStrip(s) ==
    IF s # <<>> /\ s[Len(s)] = WS THEN RStrip(SubSeq(s, 1, Len(s) - 1)) ELSE s

\* str.strip()
Strip(s) == RStrip(LStrip(s))

DigitChars == <<"0", "1", "2", "3", "4", "5", "6", "7", "8", "9">>

IsDigit(c) == \E i \in 1..10 : DigitChars[i] = c

DigitValue(c) == (CHOOSE i \in 1..10 : DigitChars[i] = c) - 1

RECURSIVE DecimalValue(_)
DecimalValue(s) ==
    IF s = <<>> THEN 0
    ELSE 10 * DecimalValue(SubSeq(s, 1, Len(s) - 1)) + DigitValue(s[Len(s)])

RECURSIVE NatToText(_)
NatToText(n) ==
    IF n < 10 THEN <<DigitChars[n + 1]>>
    ELSE NatToText(n \div 10) \o <<DigitChars[(n % 10) + 1]>>

(***************************************************************************)
(* Cells                                                                   *)
(***************************************************************************)
NaN == [t |-> "nan", s |-> <<>>, n |-> 0, d |-> 1]

Str(s) == [t |-> "str", s |-> s, n |-> 0, d |-> 1]

RECURSIVE Gcd(_, _)
Gcd(a, b) == IF b = 0 THEN a ELSE Gcd(b, a % b)

Abs(x) == IF x < 0 THEN -x ELSE x

\* the number n/d (d > 0), in lowest terms
Frac(n, d) ==
    LET g == Gcd(Abs(n), d)
    IN  [t |-> "num", s |-> <<>>, n |-> n \div g, d |-> d \div g]

Num(n) == Frac(n, 1)

IsNa(c) == c.t = "nan"

\* a - b on numeric cells; NaN when either is NaN
Sub(a, b) ==
    IF IsNa(a) \/ IsNa(b) THEN NaN ELSE Frac(a.n * b.d - b.n * a.d, a.d * b.d)

\* Series.astype(str) on one cell
AsTypeStr(c) ==
    CASE c.t = "str" -> c
      [] c.t = "nan" -> Str(<<"n", "a", "n">>)
      [] OTHER       -> Str((IF c.n < 0 THEN <<"-">> ELSE <<>>) \o NatToText(Abs(c.n)))

\* Series.astype(str).str.strip() on one cell
NormalizeKey(c) == Str(Strip(AsTypeStr(c).s))

\* pd.to_numeric(errors="coerce") on one cell: text parses when, stripped,
\* it is a non-empty digit string with an optional sign
ParsesAsNumber(s) ==
    LET u == Strip(s)
        b == IF u # <<>> /\ Head(u) = "-" THEN Tail(u) ELSE u
    IN  b # <<>> /\ \A i \in 1..Len(b) : IsDigit(b[i])

ParseNumber(s) ==
    LET u == Strip(s)
    IN  IF Head(u) = "-" THEN Num(-DecimalValue(Tail(u))) ELSE Num(DecimalValue(u))

ToNumericCoerce(c) ==
    CASE c.t = "num" -> c
      [] c.t = "nan" -> NaN
      [] OTHER       -> IF ParsesAsNumber(c.s) THEN ParseNumber(c.s) ELSE NaN

\* Series.fillna(v) on one cell
FillNa(c, v) == IF IsNa(c) THEN v ELSE c

(***************************************************************************)
(* DataFrames                                                              *)
(***************************************************************************)
NoFrame == [columns |-> <<>>, data |-> <<>>]

InSeq(x, s) == \E i \in 1..Len(s) : s[i] = x

\* the elements of s at the places where mask is TRUE, in order
RECURSIVE Compress(_, _)
Compress(s, mask) ==
    IF s = <<>> THEN <<>>
    ELSE (IF Head(mask) THEN <<Head(s)>> ELSE <<>>) \o Compress(Tail(s), Tail(mask))

HasCol(df, name) == InSeq(name, df.columns)

ColPos(df, name) ==
    CHOOSE i \in 1..Len(df.columns) :
        /\ df.columns[i] = name
        /\ \A j \in 1..(i - 1) : df.columns[j] # name

\* df[name]
Col(df, name) == [r \in 1..Len(df.data) |-> df.data[r][ColPos(df, name)]]

\* df[name] = values: the column is replaced, or added as the last one
SetCol(df, name, values) ==
    IF HasCol(df, name)
    THEN [df EXCEPT !.data =
            [r \in 1..Len(df.data) |-> [df.data[r] EXCEPT ![ColPos(df, name)] = values[r]]]]
    ELSE [columns |-> Append(df.columns, name),
          data    |-> [r \in 1..Len(df.data) |-> Append(df.data[r], values[r])]]

\* df[mask]
SelectRows(df, mask) == [df EXCEPT !.data = Compress(df.data, mask)]

\* df.columns = df.columns.str.strip()
StripColumns(df) ==
    [df EXCEPT !.columns = [i \in 1..Len(df.columns) |-> Strip(df.columns[i])]]

\* df.rename(columns={old: new})
RenameCol(df, old, new) ==
    [df EXCEPT !.columns =
        [i \in 1..Len(df.columns) |-> IF df.columns[i] = old THEN new ELSE df.columns[i]]]

\* series.astype(str).str.strip()
NormalizeSeries(series) == [r \in 1..Len(series) |-> NormalizeKey(series[r])]

\* series.fillna(v)
FillNaSeries(series, v) == [r \in 1..Len(series) |-> FillNa(series[r], v)]

\* pd.to_numeric(series, errors="coerce").fillna(0)
CoerceSeries(series) ==
    [r \in 1..Len(series) |-> FillNa(ToNumericCoerce(series[r]), Num(0))]

\* left - right, cell by cell
SubSeries(left, right) == [r \in 1..Len(left) |-> Sub(left[r], right[r])]

\* df[name] = df[name].astype(str).str.strip() for each name in names
RECURSIVE NormalizeKeys(_, _)
NormalizeKeys(df, names) ==
    IF names = <<>> THEN df
    ELSE NormalizeKeys(SetCol(df, Head(names), NormalizeSeries(Col(df, Head(names)))),
                       Tail(names))

\* DataFrame.fillna(v)
FillNaFrame(df, v) ==
    [df EXCEPT !.data = [r \in 1..Len(df.data) |-> FillNaSeries(df.data[r], v)]]

\* DataFrame.head(n)
HeadRows(df, n) ==
    [df EXCEPT !.data = SubSeq(df.data, 1, IF Len(df.data) < n THEN Len(df.data) ELSE n)]

\* the cell of a row of df in column name
Cell(df, row, name) == row[ColPos(df, name)]

\* the cells of row r in the columns named by keys
KeyOfRow(df, r, keys) == [k \in 1..Len(keys) |-> df.data[r][ColPos(df, keys[k])]]

HasNaKey(key) == \E k \in 1..Len(key) : IsNa(key[k])

\* whether column name holds a text cell
HasTextCell(df, name) == \E r \in 1..Len(df.data) : Col(df, name)[r].t = "str"

MissingAny(df, names) == \E k \in 1..Len(names) : ~HasCol(df, names[k])

(***************************************************************************)
(* groupby and merge                                                       *)
(***************************************************************************)
\* the distinct group keys, in order of first appearance; with dropna the
\* rows with a NaN key cell belong to no group
RECURSIVE GroupKeysFrom(_, _, _, _, _)
GroupKeysFrom(df, keys, dropna, r, acc) ==
    IF r > Len(df.data) THEN acc
    ELSE LET k == KeyOfRow(df, r, keys)
         IN  GroupKeysFrom(df, keys, dropna, r + 1,
                 IF InSeq(k, acc) \/ (dropna /\ HasNaKey(k)) THEN acc
                 ELSE Append(acc, k))

GroupKeys(df, keys, dropna) == GroupKeysFrom(df, keys, dropna, 1, <<>>)

\* the cells of column col in the rows of group key
GroupCells(df, keys, key, col) ==
    Compress(Col(df, col), [r \in 1..Len(df.data) |-> KeyOfRow(df, r, keys) = key])

RECURSIVE SumNums(_)
SumNums(cells) ==
    IF cells = <<>> THEN Num(0)
    ELSE LET h == Head(cells)
             t == SumNums(Tail(cells))
         IN  IF IsNa(h) THEN t ELSE Frac(h.n * t.d + t.n * h.d, h.d * t.d)

\* GroupBy.mean(): NaN cells are skipped, an all-NaN group has mean NaN
GroupMean(cells) ==
    LET c == Compress(cells, [i \in 1..Len(cells) |-> ~IsNa(cells[i])])
        t == SumNums(c)
    IN  IF c = <<>> THEN NaN ELSE Frac(t.n, t.d * Len(c))

\* mutant of GroupSum: the quantity is averaged, not summed
GroupSumAsMean(cells) == GroupMean(cells)

\* GroupBy.sum(): NaN cells are skipped, an all-NaN group sums to 0
GroupSum(cells) == SumNums(cells)

Reduce(how, cells) == IF how = "sum" THEN GroupSum(cells) ELSE GroupMean(cells)

\* df.groupby(keys, dropna=dropna).agg({col: how, ...}) with the keys as columns
GroupByAgg(df, keys, dropna, measures) ==
    LET gk == GroupKeys(df, keys, dropna)
    IN  [columns |-> keys \o [m \in 1..Len(measures) |-> measures[m].col],
         data    |-> [g \in 1..Len(gk) |->
                        gk[g] \o [m \in 1..Len(measures) |->
                            Reduce(measures[m].how,
                                   GroupCells(df, keys, gk[g], measures[m].col))]]]

RECURSIVE Flatten(_)
Flatten(ss) == IF ss = <<>> THEN <<>> ELSE Head(ss) \o Flatten(Tail(ss))

\* the names of the columns of df that are not join keys
ValueCols(df, on) ==
    Compress(df.columns, [i \in 1..Len(df.columns) |-> ~InSeq(df.columns[i], on)])

\* the columns of a merge: the keys, then each side's other columns, with the
\* side's suffix where both sides have the name
MergeColumns(left, right, on, lsuffix, rsuffix) ==
    LET lcols == ValueCols(left, on)
        rcols == ValueCols(right, on)
    IN  on \o [i \in 1..Len(lcols) |->
                 IF InSeq(lcols[i], rcols) THEN lcols[i] \o <<lsuffix>> ELSE lcols[i]]
           \o [i \in 1..Len(rcols) |->
                 IF InSeq(rcols[i], lcols) THEN rcols[i] \o <<rsuffix>> ELSE rcols[i]]

\* the merged rows that left row i gives: one for each right row with its
\* key, or one with NaN for the right side's columns
RowsFromLeft(left, right, on, i) ==
    LET lcols == ValueCols(left, on)
        rcols == ValueCols(right, on)
        key == KeyOfRow(left, i, on)
        matches == Compress([j \in 1..Len(right.data) |-> j],
                            [j \in 1..Len(right.data) |-> KeyOfRow(right, j, on) = key])
    IN  IF matches = <<>>
        THEN <<key \o KeyOfRow(left, i, lcols) \o [c \in 1..Len(rcols) |-> NaN]>>
        ELSE [m \in 1..Len(matches) |->
                key \o KeyOfRow(left, i, lcols) \o KeyOfRow(right, matches[m], rcols)]

\* the merged rows of the right rows whose key no left row has
RowsFromRightOnly(left, right, on) ==
    LET lcols == ValueCols(left, on)
        rcols == ValueCols(right, on)
        only == Compress([j \in 1..Len(right.data) |-> j],
                         [j \in 1..Len(right.data) |->
                            \A i \in 1..Len(left.data) :
                                KeyOfRow(left, i, on) # KeyOfRow(right, j, on)])
    IN  [k \in 1..Len(only) |->
            KeyOfRow(right, only[k], on) \o [c \in 1..Len(lcols) |-> NaN]
                \o KeyOfRow(right, only[k], rcols)]

\* mutant of MergeOuter: how="left", the rows of the right side alone are lost
MergeLeft(left, right, on, lsuffix, rsuffix) ==
    [columns |-> MergeColumns(left, right, on, lsuffix, rsuffix),
     data    |-> Flatten([i \in 1..Len(left.data) |-> RowsFromLeft(left, right, on, i)])]

\* left.merge(right, on=on, how="outer", suffixes=(lsuffix, rsuffix))
MergeOuter(left, right, on, lsuffix, rsuffix) ==
    [columns |-> MergeColumns(left, right, on, lsuffix, rsuffix),
     data    |-> Flatten([i \in 1..Len(left.data) |-> RowsFromLeft(left, right, on, i)])
                 \o RowsFromRightOnly(left, right, on)]

(***************************************************************************)
(* Column names, filters and responses                                     *)
(***************************************************************************)
RouteCardNo == <<"RouteCard No">>
GKDCNo == <<"GK DC No">>
SubconDCNo == <<"Subcon DC No">>
FGItemCode == <<"FG Item Code">>
SupplierName == <<"Supplier Name">>
TransferQty == <<"Transfer Qty">>
RcvdQty == <<"Rcvd. Qty">>
SpecialPrice == <<"Special Price">>
DCNo == <<"DC No">>
IssueQty == <<"Issue_Qty">>
ReceivedQty == <<"Received_Qty">>
Difference == <<"Difference">>
QtyDifference == <<"Qty Difference">>
ReceiptStatusCol == <<"Receipt Status">>
PriceDifference == <<"Price Difference">>
PriceStatusCol == <<"Price Status">>
OverallStatusCol == <<"Overall Status">>
SpecialPriceIssued == <<"Special Price", "_Issued">>
SpecialPriceReceived == <<"Special Price", "_Received">>

\* an optional filter that was not supplied (Python None)
NoneValue == [t |-> "none", s |-> <<>>, n |-> 0, d |-> 1]

\* `if route_card:` : None and the empty string are falsy
Truthy(f) == f.t = "str" /\ f.s # <<>>

NoSummary ==
    [total_records |-> 0, matched_records |-> 0, mismatch_records |-> 0,
     over_receipt_cases |-> 0, under_receipt_cases |-> 0, price_mismatch_cases |-> 0]

\* no response yet; a response is what the caller gets: a returned payload
\* (outcome "returned") or an exception (outcome "raised", with the status
\* and detail FastAPI answers with, status 0 for a plain function call)
NoResponse ==
    [outcome |-> "none", status |-> 0, exc |-> "", detail |-> <<>>,
     mismatch_count |-> 0, rows |-> NoFrame, full_table |-> NoFrame,
     summary |-> NoSummary]

Raised(status, exc, detail) ==
    [NoResponse EXCEPT !.outcome = "raised", !.status = status, !.exc = exc,
                       !.detail = detail]

\* the locals of a handler that stopped before aggregation
Aborted(resp) ==
    [issue_grouped |-> NoFrame, received_grouped |-> NoFrame, merged |-> NoFrame,
     mismatch_df |-> NoFrame, response |-> resp]

PreviewCap == 100

(***************************************************************************)
(* Steps shared by the two /validate handlers                              *)
(***************************************************************************)
IssueKeys == <<RouteCardNo, GKDCNo, FGItemCode, SupplierName>>
ReceivedKeys == <<RouteCardNo, SubconDCNo, FGItemCode, SupplierName>>
MergeKeys == <<RouteCardNo, DCNo, FGItemCode, SupplierName>>

AggregateIssue(df) ==
    RenameCol(RenameCol(
        GroupByAgg(df, IssueKeys, FALSE, <<[col |-> TransferQty, how |-> "sum"]>>),
        GKDCNo, DCNo), TransferQty, IssueQty)

AggregateReceived(df) ==
    RenameCol(RenameCol(
        GroupByAgg(df, ReceivedKeys, FALSE, <<[col |-> RcvdQty, how |-> "sum"]>>),
        SubconDCNo, DCNo), RcvdQty, ReceivedQty)

\* the outer merge, the two fillna(0) and the Difference column
MergeQty(ig, rg) ==
    LET m0 == MergeOuter(ig, rg, MergeKeys, "_x", "_y")
        m1 == SetCol(m0, IssueQty, FillNaSeries(Col(m0, IssueQty), Num(0)))
        m2 == SetCol(m1, ReceivedQty, FillNaSeries(Col(m1, ReceivedQty), Num(0)))
    IN  SetCol(m2, Difference, SubSeries(Col(m2, IssueQty), Col(m2, ReceivedQty)))

\* merged[merged["Difference"] != 0]
OnlyMismatches(m) ==
    LET diff == Col(m, Difference)
    IN  SelectRows(m, [r \in 1..Len(diff) |-> diff[r] # Num(0)])

\* app.py: mismatch_df["RouteCard No"].astype(str) == str(route_card)
RouteCardFilter(df, rc) ==
    LET col == Col(df, RouteCardNo)
    IN  IF Truthy(rc)
        THEN SelectRows(df, [r \in 1..Len(col) |-> AsTypeStr(col[r]) = Str(rc.s)])
        ELSE df

\* appsecond.py: mismatch_df["RouteCard No"] == str(route_card)
RouteCardFilter2(df, rc) ==
    LET col == Col(df, RouteCardNo)
    IN  IF Truthy(rc)
        THEN SelectRows(df, [r \in 1..Len(col) |-> col[r] = Str(rc.s)])
        ELSE df

\* mismatch_df["Supplier Name"] == supplier
SupplierFilter(df, sup) ==
    LET col == Col(df, SupplierName)
    IN  IF Truthy(sup)
        THEN SelectRows(df, [r \in 1..Len(col) |-> col[r] = Str(sup.s)])
        ELSE df

(***************************************************************************)
(* src/app.py: validate                                                    *)
(***************************************************************************)
InternalServerError == <<"Internal Server Error">>

\* The key columns are read before the column names are stripped, the
\* quantity columns after.  The quantities are summed as read: a NaN cell is
\* skipped, a text cell makes the sum or the subtraction raise TypeError.
AppValidate(ifile, rfile, rc, sup) ==
    IF ~ifile.excel \/ ~rfile.excel
    THEN Aborted(Raised(500, "ValueError", InternalServerError))
    ELSE IF MissingAny(ifile.df, IssueKeys) \/ MissingAny(rfile.df, ReceivedKeys)
    THEN Aborted(Raised(500, "KeyError", InternalServerError))
    ELSE
    LET i1 == StripColumns(NormalizeKeys(ifile.df, IssueKeys))
        r1 == StripColumns(NormalizeKeys(rfile.df, ReceivedKeys))
    IN  IF ~HasCol(i1, TransferQty) \/ ~HasCol(r1, RcvdQty)
        THEN Aborted(Raised(500, "KeyError", InternalServerError))
        ELSE IF HasTextCell(i1, TransferQty) \/ HasTextCell(r1, RcvdQty)
        THEN Aborted(Raised(500, "TypeError", InternalServerError))
        ELSE
        LET ig == AggregateIssue(i1)
            rg == AggregateReceived(r1)
            m  == MergeQty(ig, rg)
            mm == FillNaFrame(SupplierFilter(RouteCardFilter(OnlyMismatches(m), rc), sup),
                              Str(<<>>))
        IN  [issue_grouped |-> ig, received_grouped |-> rg, merged |-> m,
             mismatch_df |-> mm,
             response |-> [NoResponse EXCEPT !.outcome = "returned", !.status = 200,
                                             !.mismatch_count = Len(mm.data),
                                             !.rows = HeadRows(mm, PreviewCap)]]

(***************************************************************************)
(* src/appsecond.py: validate                                              *)
(***************************************************************************)
FileProcessingError == "File processing error: "
FailedIssue == "Failed to download issue file"
FailedReceived == "Failed to download received file"
CannotDetermineFormat ==
    "Excel file format cannot be determined, you must specify an engine manually."

\* str(HTTPException(status_code=400, detail=d))
HTTPExceptionStr(d) == <<"400", ": ", d>>

\* the try block: both downloads, the two status checks, the two decodes;
\* <<>> when nothing is raised, else the text of the exception, which the
\* except clause catches (HTTPException is an Exception)
FetchError(ifile, rfile) ==
    IF ifile.status # 200 THEN HTTPExceptionStr(FailedIssue)
    ELSE IF rfile.status # 200 THEN HTTPExceptionStr(FailedReceived)
    ELSE IF ~ifile.excel \/ ~rfile.excel THEN <<CannotDetermineFormat>>
    ELSE <<>>

SummaryNames ==
    <<<<"route_card">>, <<"dc_no">>, <<"fg_item_code">>, <<"supplier">>,
      <<"issue_qty">>, <<"received_qty">>, <<"difference">>>>

AppSecondValidate(ifile, rfile, rc, sup) ==
    IF FetchError(ifile, rfile) # <<>>
    THEN Aborted(Raised(500, "HTTPException",
                        <<FileProcessingError>> \o FetchError(ifile, rfile)))
    ELSE
    LET i0 == StripColumns(ifile.df)
        r0 == StripColumns(rfile.df)
    IN  IF \/ MissingAny(i0, IssueKeys) \/ MissingAny(r0, ReceivedKeys)
           \/ ~HasCol(i0, TransferQty) \/ ~HasCol(r0, RcvdQty)
        THEN Aborted(Raised(500, "KeyError", InternalServerError))
        ELSE
        LET i1 == NormalizeKeys(i0, IssueKeys)
            r1 == NormalizeKeys(r0, ReceivedKeys)
            i2 == SetCol(i1, TransferQty, CoerceSeries(Col(i1, TransferQty)))
            r2 == SetCol(r1, RcvdQty, CoerceSeries(Col(r1, RcvdQty)))
            ig == AggregateIssue(i2)
            rg == AggregateReceived(r2)
            m  == MergeQty(ig, rg)
            mm == FillNaFrame(SupplierFilter(RouteCardFilter2(OnlyMismatches(m), rc), sup),
                              Str(<<>>))
        IN  [issue_grouped |-> ig, received_grouped |-> rg, merged |-> m,
             mismatch_df |-> mm,
             response |-> [NoResponse EXCEPT !.outcome = "returned", !.status = 200,
                                             !.mismatch_count = Len(mm.data),
                                             !.rows = [mm EXCEPT !.columns = SummaryNames]]]

(***************************************************************************)
(* src/validation_engine.py: validate_store                                *)
(***************************************************************************)
StoreIssueKeys == <<FGItemCode, RouteCardNo, GKDCNo>>
StoreReceivedKeys == <<FGItemCode, RouteCardNo, SubconDCNo>>

Matched == Str(<<"Matched">>)
Mismatch == Str(<<"Mismatch">>)
OverReceipt == Str(<<"Over Receipt">>)
UnderReceipt == Str(<<"Under Receipt">>)

\* mutant of ReceiptStatus: the sign test is reversed
ReceiptStatusReversed(x) ==
    IF x = Num(0) THEN Matched
    ELSE IF ~IsNa(x) /\ x.n > 0 THEN OverReceipt
    ELSE UnderReceipt

\* lambda x: "Matched" if x == 0 else "Over Receipt" if x < 0 else "Under Receipt"
ReceiptStatus(x) ==
    IF x = Num(0) THEN Matched
    ELSE IF ~IsNa(x) /\ x.n < 0 THEN OverReceipt
    ELSE UnderReceipt

\* lambda x: "Matched" if x == 0 else "Mismatch"
PriceStatus(x) == IF x = Num(0) THEN Matched ELSE Mismatch

\* mutant of OverallStatus: one matched status is enough
OverallStatusEither(receipt, price) ==
    IF receipt = Matched \/ price = Matched THEN Matched ELSE Mismatch

\* lambda row: "Matched" if both statuses are "Matched" else "Mismatch"
OverallStatus(receipt, price) ==
    IF receipt = Matched /\ price = Matched THEN Matched ELSE Mismatch

\* len(result[result[col] == v])
CountRows(df, col, v) ==
    Cardinality({r \in 1..Len(df.data) : Col(df, col)[r] = v})

StoreGroupIssue(df) ==
    GroupByAgg(df, StoreIssueKeys, TRUE,
               <<[col |-> TransferQty, how |-> "sum"], [col |-> SpecialPrice, how |-> "mean"]>>)

\* the received groups, Subcon DC No renamed to GK DC No
StoreGroupReceived(df) ==
    RenameCol(
        GroupByAgg(df, StoreReceivedKeys, TRUE,
                   <<[col |-> RcvdQty, how |-> "sum"], [col |-> SpecialPrice, how |-> "mean"]>>),
        SubconDCNo, GKDCNo)

StoreMerge(ig, rg) ==
    FillNaFrame(MergeOuter(ig, rg, StoreIssueKeys, "_Issued", "_Received"), Num(0))

\* the difference and status columns
StoreClassify(m0) ==
    LET m1 == SetCol(m0, QtyDifference, SubSeries(Col(m0, TransferQty), Col(m0, RcvdQty)))
        qd == Col(m1, QtyDifference)
        m2 == SetCol(m1, ReceiptStatusCol, [r \in 1..Len(qd) |-> ReceiptStatus(qd[r])])
        m3 == SetCol(m2, PriceDifference,
                     SubSeries(Col(m2, SpecialPriceIssued), Col(m2, SpecialPriceReceived)))
        pd == Col(m3, PriceDifference)
        m4 == SetCol(m3, PriceStatusCol, [r \in 1..Len(pd) |-> PriceStatus(pd[r])])
        rs == Col(m4, ReceiptStatusCol)
        ps == Col(m4, PriceStatusCol)
    IN  SetCol(m4, OverallStatusCol, [r \in 1..Len(rs) |-> OverallStatus(rs[r], ps[r])])

\* result[result['Overall Status'] == "Mismatch"]
MismatchTable(result) ==
    LET os == Col(result, OverallStatusCol)
    IN  SelectRows(result, [r \in 1..Len(os) |-> os[r] = Mismatch])

StoreSummary(result) ==
    [total_records        |-> Len(result.data),
     matched_records      |-> CountRows(result, OverallStatusCol, Matched),
     mismatch_records     |-> CountRows(result, OverallStatusCol, Mismatch),
     over_receipt_cases   |-> CountRows(result, ReceiptStatusCol, OverReceipt),
     under_receipt_cases  |-> CountRows(result, ReceiptStatusCol, UnderReceipt),
     price_mismatch_cases |-> CountRows(result, PriceStatusCol, Mismatch)]

\* issue_df.get('Special Price', 0) is the int 0 when the column is absent,
\* pd.to_numeric(0) is that int, and an int has no fillna: AttributeError
ValidateStore(issue_df, received_df) ==
    IF ~HasCol(issue_df, TransferQty) \/ ~HasCol(received_df, RcvdQty)
    THEN Aborted(Raised(0, "KeyError", <<>>))
    ELSE IF ~HasCol(issue_df, SpecialPrice) \/ ~HasCol(received_df, SpecialPrice)
    THEN Aborted(Raised(0, "AttributeError", <<>>))
    ELSE IF MissingAny(issue_df, StoreIssueKeys) \/ MissingAny(received_df, StoreReceivedKeys)
    THEN Aborted(Raised(0, "KeyError", <<>>))
    ELSE
    LET i1 == SetCol(issue_df, TransferQty, CoerceSeries(Col(issue_df, TransferQty)))
        i2 == SetCol(i1, SpecialPrice, CoerceSeries(Col(i1, SpecialPrice)))
        r1 == SetCol(received_df, RcvdQty, CoerceSeries(Col(received_df, RcvdQty)))
        r2 == SetCol(r1, SpecialPrice, CoerceSeries(Col(r1, SpecialPrice)))
        ig == StoreGroupIssue(i2)
        rg == StoreGroupReceived(r2)
        result == StoreClassify(StoreMerge(ig, rg))
        mt == MismatchTable(result)
    IN  [issue_grouped |-> ig, received_grouped |-> rg, merged |-> result,
         mismatch_df |-> mt,
         response |-> [NoResponse EXCEPT !.outcome = "returned",
                                         !.summary = StoreSummary(result),
                                         !.full_table = result,
                                         !.rows = mt]]

(***************************************************************************)
(* Requests                                                                *)
(***************************************************************************)
MaxRows == 2

IssueColumns == <<RouteCardNo, GKDCNo, FGItemCode, SupplierName, TransferQty, SpecialPrice>>
ReceivedColumns == <<RouteCardNo, SubconDCNo, FGItemCode, SupplierName, RcvdQty, SpecialPrice>>

R1 == Str(<<"R", "1">>)
R1Padded == Str(<<"R", "1", " ">>)
R2 == Str(<<"R", "2">>)
D1 == Str(<<"D", "1">>)
F1 == Str(<<"F", "1">>)
S1 == Str(<<"S", "1">>)
S2 == Str(<<"S", "2">>)

BaseRow == <<R1, D1, F1, S1, Num(3), Num(2)>>

\* the base row and the rows that differ from it in one key cell
KeyRows ==
    <<BaseRow,
      [BaseRow EXCEPT ![1] = R1Padded],
      [BaseRow EXCEPT ![1] = R2],
      [BaseRow EXCEPT ![2] = NaN],
      [BaseRow EXCEPT ![4] = S2]>>

\* the base row and the rows that differ from it in the quantity or the price
MeasureRows ==
    <<BaseRow,
      [BaseRow EXCEPT ![5] = Num(4)],
      [BaseRow EXCEPT ![5] = NaN],
      [BaseRow EXCEPT ![5] = Str(<<"x">>)],
      [BaseRow EXCEPT ![5] = Str(<<" ", "5">>)],
      [BaseRow EXCEPT ![6] = Num(1)],
      [BaseRow EXCEPT ![6] = NaN]>>

\* the tables of at most MaxRows rows drawn from domain, up to the order of
\* the rows (grouping and joining do not depend on it)
Tables(domain) ==
    UNION {{[i \in 1..n |-> domain[f[i]]] :
                f \in {g \in [1..n -> 1..Len(domain)] :
                          \A i \in 1..n : \A j \in i..n : g[i] <= g[j]}} :
           n \in 0..MaxRows}

DropAt(s, p) == SubSeq(s, 1, p - 1) \o SubSeq(s, p + 1, Len(s))

\* the header as written, with one name followed or preceded by whitespace,
\* or with one column left out
Frames(columns, rows) ==
    {[columns |-> columns, data |-> rows]}
    \cup {[columns |-> [columns EXCEPT ![p] = @ \o <<WS>>], data |-> rows] :
            p \in 1..Len(columns)}
    \cup {[columns |-> [columns EXCEPT ![p] = <<WS>> \o @], data |-> rows] :
            p \in 1..Len(columns)}
    \cup {[columns |-> DropAt(columns, p),
           data |-> [r \in 1..Len(rows) |-> DropAt(rows[r], p)]] :
            p \in 1..Len(columns)}

Upload(df) == [status |-> 200, excel |-> TRUE, df |-> df]

IssueFrame(rows) == [columns |-> IssueColumns, data |-> rows]
ReceivedFrame(rows) == [columns |-> ReceivedColumns, data |-> rows]

Entries == {"app", "appsecond", "store"}

RouteCardFilters ==
    {NoneValue, Str(<<>>), Str(<<"R", "1">>), Str(<<"R", "1", " ">>), Str(<<"R", "9">>)}

SupplierFilters == {NoneValue, Str(<<"S", "1">>), Str(<<" ", "S", "1">>)}

(***************************************************************************)
(* Specification                                                           *)
(***************************************************************************)
Start(e, ifile, rfile, rc, sup) ==
    /\ entry = e
    /\ issue_file = ifile
    /\ received_file = rfile
    /\ route_card = rc
    /\ supplier = sup
    /\ pc = "request"
    /\ issue_grouped = NoFrame
    /\ received_grouped = NoFrame
    /\ merged = NoFrame
    /\ mismatch_df = NoFrame
    /\ response = NoResponse

\* well-formed files whose rows vary, in their key cells or in their
\* quantities and prices
RowTables == Tables(KeyRows) \cup Tables(MeasureRows)

InitRows ==
    \E e \in Entries, i \in RowTables, r \in RowTables :
        Start(e, Upload(IssueFrame(i)), Upload(ReceivedFrame(r)), NoneValue, NoneValue)

\* files whose headers vary
InitHeaders ==
    \E e \in Entries, i \in Frames(IssueColumns, <<BaseRow>>),
       r \in Frames(ReceivedColumns, <<[BaseRow EXCEPT ![5] = Num(4)]>>) :
        Start(e, Upload(i), Upload(r), NoneValue, NoneValue)

\* requests with filters
InitFilters ==
    \E e \in {"app", "appsecond"}, i \in Tables(KeyRows), r \in {<<>>, <<BaseRow>>},
       rc \in RouteCardFilters, sup \in SupplierFilters :
        Start(e, Upload(IssueFrame(i)), Upload(ReceivedFrame(r)), rc, sup)

\* uploads that do not decode, downloads that fail or do not decode
InitFetch ==
    \E e \in {"app", "appsecond"}, si \in {200, 404}, sr \in {200, 404},
       xi \in BOOLEAN, xr \in BOOLEAN :
        /\ e = "app" => si = 200 /\ sr = 200
        /\ Start(e, [status |-> si, excel |-> xi, df |-> IssueFrame(<<BaseRow>>)],
                    [status |-> sr, excel |-> xr, df |-> ReceivedFrame(<<>>)],
                    NoneValue, NoneValue)

Init == InitRows \/ InitHeaders \/ InitFilters \/ InitFetch

Finish(out) ==
    /\ issue_grouped' = out.issue_grouped
    /\ received_grouped' = out.received_grouped
    /\ merged' = out.merged
    /\ mismatch_df' = out.mismatch_df
    /\ response' = out.response
    /\ pc' = "done"
    /\ UNCHANGED <<entry, issue_file, received_file, route_card, supplier>>

AppRequest ==
    /\ pc = "request"
    /\ entry = "app"
    /\ Finish(AppValidate(issue_file, received_file, route_card, supplier))

AppSecondRequest ==
    /\ pc = "request"
    /\ entry = "appsecond"
    /\ Finish(AppSecondValidate(issue_file, received_file, route_card, supplier))

StoreCall ==
    /\ pc = "request"
    /\ entry = "store"
    /\ Finish(ValidateStore(issue_file.df, received_file.df))

Next == AppRequest \/ AppSecondRequest \/ StoreCall

Spec == Init /\ [][Next]_vars

(***************************************************************************)
(* What the properties read                                                *)
(***************************************************************************)
Done == pc = "done"
Returned == response.outcome = "returned"
IsStore == entry = "store"
IsEndpoint == entry \in {"app", "appsecond"}

\* the join key, quantity and difference columns of the reconciled table
OnKeys == IF IsStore THEN StoreIssueKeys ELSE MergeKeys
IssueQtyName == IF IsStore THEN TransferQty ELSE IssueQty
ReceivedQtyName == IF IsStore THEN RcvdQty ELSE ReceivedQty
DifferenceName == IF IsStore THEN QtyDifference ELSE Difference

\* the two inputs as the aggregation sees their headers
InputIssue == IF IsStore THEN issue_file.df ELSE StripColumns(issue_file.df)
InputReceived == IF IsStore THEN received_file.df ELSE StripColumns(received_file.df)
InputIssueKeys == IF IsStore THEN StoreIssueKeys ELSE IssueKeys
InputReceivedKeys == IF IsStore THEN StoreReceivedKeys ELSE ReceivedKeys

\* the reconciliation key of input row r: the key cells, as text and trimmed
\* in the /validate endpoints, as they are in validate_store
InputKey(df, r, keys) ==
    IF IsStore THEN KeyOfRow(df, r, keys)
    ELSE [k \in 1..Len(keys) |-> NormalizeKey(KeyOfRow(df, r, keys)[k])]

\* whether a cell is neither a number nor text that parses as one
Unparsable(c) == c.t = "nan" \/ (c.t = "str" /\ ~ParsesAsNumber(c.s))

\* the number a quantity or price cell stands for, 0 when it stands for none
ValueOf(c) ==
    IF c.t = "num" THEN c.n
    ELSE IF Unparsable(c) THEN 0
    ELSE ParseNumber(c.s).n

RECURSIVE TotalFrom(_, _, _, _, _)
TotalFrom(df, keys, key, col, r) ==
    IF r > Len(df.data) THEN 0
    ELSE (IF InputKey(df, r, keys) = key THEN ValueOf(df.data[r][ColPos(df, col)]) ELSE 0)
         + TotalFrom(df, keys, key, col, r + 1)

\* the sum of column col over the input rows with reconciliation key `key`
Total(df, keys, key, col) == TotalFrom(df, keys, key, col, 1)

\* the number of input rows with reconciliation key `key`
Count(df, keys, key) ==
    Cardinality({r \in 1..Len(df.data) : InputKey(df, r, keys) = key})

KeySet(df, keys) == {KeyOfRow(df, r, keys) : r \in 1..Len(df.data)}

RowsWithKey(df, keys, key) == {r \in 1..Len(df.data) : KeyOfRow(df, r, keys) = key}

Lt(a, b) == a.n * b.d < b.n * a.d

\* both files arrive and decode
FilesOk ==
    /\ issue_file.status = 200 /\ received_file.status = 200
    /\ issue_file.excel /\ received_file.excel

\* both headers are exactly as documented
HeadersExact ==
    /\ issue_file.df.columns = IssueColumns
    /\ received_file.df.columns = ReceivedColumns

(***************************************************************************)
(* C1                                                                      *)
(***************************************************************************)
\* C1: when a run returns, the reconciled table holds exactly one row for
\* each key of the aggregated issue table or of the aggregated received
\* table (whose DC column has been renamed to the issue side's), and no row
\* with any other key.
C1_ReconciledKeysAreUnion ==
    (Done /\ Returned) =>
        LET keys == KeySet(issue_grouped, OnKeys) \cup KeySet(received_grouped, OnKeys)
        IN  /\ \A k \in keys : Cardinality(RowsWithKey(merged, OnKeys, k)) = 1
            /\ KeySet(merged, OnKeys) \subseteq keys
            /\ Len(merged.data) = Cardinality(keys)

\* a run where one key is on the issue side only, one on the received side
\* only and one on both
C1_Witness ==
    /\ Done /\ Returned
    /\ KeySet(issue_grouped, OnKeys) \ KeySet(received_grouped, OnKeys) # {}
    /\ KeySet(received_grouped, OnKeys) \ KeySet(issue_grouped, OnKeys) # {}
    /\ KeySet(issue_grouped, OnKeys) \cap KeySet(received_grouped, OnKeys) # {}

(***************************************************************************)
(* C2                                                                      *)
(***************************************************************************)
\* C2: when a run returns, every reconciled row with key K holds as issue
\* quantity the sum of Transfer Qty over the issue rows with key K, as
\* received quantity the sum of Rcvd. Qty over the received rows with key K
\* (0 for a side without such rows), and as difference the first minus the
\* second, which is a number and not NaN.
C2_QuantitiesAndDifference ==
    (Done /\ Returned) =>
        \A m \in 1..Len(merged.data) :
            LET row == merged.data[m]
                key == KeyOfRow(merged, m, OnKeys)
                iq  == Total(InputIssue, InputIssueKeys, key, TransferQty)
                rq  == Total(InputReceived, InputReceivedKeys, key, RcvdQty)
            IN  /\ Cell(merged, row, IssueQtyName) = Num(iq)
                /\ Cell(merged, row, ReceivedQtyName) = Num(rq)
                /\ Cell(merged, row, DifferenceName) = Num(iq - rq)

\* a run where two issue rows of one key are summed and the received side
\* has no row for that key
C2_Witness ==
    /\ Done /\ Returned
    /\ \E m \in 1..Len(merged.data) :
        LET key == KeyOfRow(merged, m, OnKeys)
        IN  /\ Count(InputIssue, InputIssueKeys, key) = 2
            /\ Count(InputReceived, InputReceivedKeys, key) = 0
            /\ Cell(merged, merged.data[m], IssueQtyName) = Num(7)
            /\ Cell(merged, merged.data[m], DifferenceName) = Num(7)

(***************************************************************************)
(* C3                                                                      *)
(***************************************************************************)
\* C3: in validate_store the Receipt Status of every reconciled row is
\* Matched exactly when issued = received, Over Receipt exactly when
\* issued < received and Under Receipt exactly when issued > received; a key
\* with a positive quantity on the issue side only is Under Receipt, on the
\* received side only Over Receipt.
C3_ReceiptStatusBySign ==
    (Done /\ Returned /\ IsStore) =>
        \A m \in 1..Len(response.full_table.data) :
            LET t == response.full_table
                row == t.data[m]
                key == KeyOfRow(t, m, OnKeys)
                iq == Cell(t, row, TransferQty)
                rq == Cell(t, row, RcvdQty)
                st == Cell(t, row, ReceiptStatusCol)
            IN  /\ st = Matched <=> iq = rq
                /\ st = OverReceipt <=> Lt(iq, rq)
                /\ st = UnderReceipt <=> Lt(rq, iq)
                /\ (Lt(Num(0), iq) /\ key \notin KeySet(received_grouped, OnKeys))
                        => st = UnderReceipt
                /\ (Lt(Num(0), rq) /\ key \notin KeySet(issue_grouped, OnKeys))
                        => st = OverReceipt

\* a validate_store run with a matched key, a key issued only and a key
\* received only
C3_Witness ==
    /\ Done /\ Returned /\ IsStore
    /\ \E a, b, c \in 1..Len(response.full_table.data) :
        LET t == response.full_table
        IN  /\ Cell(t, t.data[a], ReceiptStatusCol) = Matched
            /\ Cell(t, t.data[b], ReceiptStatusCol) = UnderReceipt
            /\ KeyOfRow(t, b, OnKeys) \notin KeySet(received_grouped, OnKeys)
            /\ Cell(t, t.data[c], ReceiptStatusCol) = OverReceipt
            /\ KeyOfRow(t, c, OnKeys) \notin KeySet(issue_grouped, OnKeys)

(***************************************************************************)
(* C4                                                                      *)
(***************************************************************************)
\* the mean of Special Price over the input rows with key `key`, 0 when the
\* side has no such row
MeanPrice(df, keys, key) ==
    IF Count(df, keys, key) = 0 THEN Num(0)
    ELSE Frac(Total(df, keys, key, SpecialPrice), Count(df, keys, key))

\* C4: in validate_store the Price Status of a row is Matched exactly when
\* the mean issue price of its key equals the mean received price of its key
\* (0 for a side without the key), the Overall Status is Matched exactly
\* when Receipt Status and Price Status both are, mismatch_table is the rows
\* of full_table whose Overall Status is Mismatch, unchanged, and a row with
\* equal quantities and equal prices is not in it.
C4_PriceOverallAndMismatchTable ==
    (Done /\ Returned /\ IsStore) =>
        LET t == response.full_table
            mt == response.rows
            overall(row) == Cell(t, row, OverallStatusCol)
        IN  /\ mt.columns = t.columns
            /\ \A m \in 1..Len(t.data) :
                LET row == t.data[m]
                    key == KeyOfRow(t, m, OnKeys)
                    pi == MeanPrice(InputIssue, InputIssueKeys, key)
                    pr == MeanPrice(InputReceived, InputReceivedKeys, key)
                IN  /\ Cell(t, row, PriceStatusCol) \in {Matched, Mismatch}
                    /\ Cell(t, row, PriceStatusCol) = Matched <=> pi = pr
                    /\ overall(row) \in {Matched, Mismatch}
                    /\ overall(row) = Matched <=>
                           /\ Cell(t, row, ReceiptStatusCol) = Matched
                           /\ Cell(t, row, PriceStatusCol) = Matched
                    /\ overall(row) = Mismatch <=> InSeq(row, mt.data)
                    /\ (Cell(t, row, TransferQty) = Cell(t, row, RcvdQty) /\ pi = pr)
                           => ~InSeq(row, mt.data)
            /\ \A m \in 1..Len(mt.data) : InSeq(mt.data[m], t.data)
            /\ Len(mt.data) = Cardinality({m \in 1..Len(t.data) : overall(t.data[m]) = Mismatch})

\* a validate_store run with a key whose quantities agree and whose mean
\* prices, one of them a mean of two rows, differ
C4_Witness ==
    /\ Done /\ Returned /\ IsStore
    /\ \E m \in 1..Len(response.full_table.data) :
        LET t == response.full_table
            row == t.data[m]
        IN  /\ Cell(t, row, ReceiptStatusCol) = Matched
            /\ Cell(t, row, PriceStatusCol) = Mismatch
            /\ Cell(t, row, SpecialPriceIssued) = Frac(3, 2)
            /\ InSeq(row, response.rows.data)

(***************************************************************************)
(* C5                                                                      *)
(***************************************************************************)
\* C5: in each of the three entry points, with well-formed files and
\* headers, a quantity cell that is missing or is text that is no number
\* does not fail the run; its row's key is in the reconciled table and the
\* quantity of that key is the sum of the other rows' quantities.
C5_UnparsableQuantityCountsAsZero ==
    (Done /\ FilesOk /\ HeadersExact) =>
        /\ Returned
        /\ \A r \in 1..Len(InputIssue.data) :
            LET key == InputKey(InputIssue, r, InputIssueKeys)
            IN  (Unparsable(Cell(InputIssue, InputIssue.data[r], TransferQty))
                    /\ ~HasNaKey(KeyOfRow(InputIssue, r, InputIssueKeys)))
                => \E m \in 1..Len(merged.data) :
                      /\ KeyOfRow(merged, m, OnKeys) = key
                      /\ Cell(merged, merged.data[m], IssueQtyName)
                            = Num(Total(InputIssue, InputIssueKeys, key, TransferQty))
        /\ \A r \in 1..Len(InputReceived.data) :
            LET key == InputKey(InputReceived, r, InputReceivedKeys)
            IN  (Unparsable(Cell(InputReceived, InputReceived.data[r], RcvdQty))
                    /\ ~HasNaKey(KeyOfRow(InputReceived, r, InputReceivedKeys)))
                => \E m \in 1..Len(merged.data) :
                      /\ KeyOfRow(merged, m, OnKeys) = key
                      /\ Cell(merged, merged.data[m], ReceivedQtyName)
                            = Num(Total(InputReceived, InputReceivedKeys, key, RcvdQty))

(***************************************************************************)
(* C6                                                                      *)
(***************************************************************************)
RequiredIssue == <<RouteCardNo, GKDCNo, FGItemCode, SupplierName, TransferQty>>
RequiredReceived == <<RouteCardNo, SubconDCNo, FGItemCode, SupplierName, RcvdQty>>

\* a required column is absent under its trimmed name
MissingRequired ==
    \/ MissingAny(StripColumns(issue_file.df), RequiredIssue)
    \/ MissingAny(StripColumns(received_file.df), RequiredReceived)

SchemaError == response.outcome = "raised" /\ response.exc = "KeyError"

\* C6: in the /validate endpoints, with files that arrive and decode, the
\* run fails on its columns exactly when a required column is absent under
\* its trimmed name, and that failure reaches the caller as a client-input
\* error (status 4xx) without a result payload.
C6_SchemaErrorIffMissingTrimmed ==
    (Done /\ IsEndpoint /\ FilesOk) =>
        /\ SchemaError <=> MissingRequired
        /\ SchemaError => response.status \in 400..499
        /\ MissingRequired => ~Returned

(***************************************************************************)
(* C7                                                                      *)
(***************************************************************************)
\* C7: validate_store with every required column present returns also when
\* Special Price is absent from an input, and then the mean price of every
\* key on a side without the column is 0.
C7_SpecialPriceOptional ==
    (/\ Done /\ IsStore
     /\ ~MissingAny(issue_file.df, RequiredIssue)
     /\ ~MissingAny(received_file.df, RequiredReceived)) =>
        /\ Returned
        /\ ~HasCol(issue_file.df, SpecialPrice) =>
              \A m \in 1..Len(merged.data) :
                  Cell(merged, merged.data[m], SpecialPriceIssued) = Num(0)
        /\ ~HasCol(received_file.df, SpecialPrice) =>
              \A m \in 1..Len(merged.data) :
                  Cell(merged, merged.data[m], SpecialPriceReceived) = Num(0)

(***************************************************************************)
(* C8                                                                      *)
(***************************************************************************)
\* a filter that is absent or empty constrains nothing; any other is matched
\* by the rows whose key equals the filter value, normalised as the key
\* columns are
MatchesFilter(df, row, col, f) ==
    f = NoneValue \/ f = Str(<<>>) \/ Cell(df, row, col) = NormalizeKey(f)

\* C8: in the /validate endpoints the returned rows are the rows of the
\* reconciled table with a non-zero difference that match every supplied
\* filter, with their values unchanged, and mismatch_count is their number.
C8_FilteredMismatches ==
    (Done /\ IsEndpoint /\ Returned) =>
        /\ response.rows.data =
              Compress(merged.data,
                       [m \in 1..Len(merged.data) |->
                           /\ Cell(merged, merged.data[m], Difference) # Num(0)
                           /\ MatchesFilter(merged, merged.data[m], RouteCardNo, route_card)
                           /\ MatchesFilter(merged, merged.data[m], SupplierName, supplier)])
        /\ response.mismatch_count = Len(response.rows.data)

(***************************************************************************)
(* C9                                                                      *)
(***************************************************************************)
IssueFetchFailed == issue_file.status # 200 \/ ~issue_file.excel
ReceivedFetchFailed == received_file.status # 200 \/ ~received_file.excel

\* C9: in the remote-fetch endpoint a download or decode failure of an
\* input aborts the run before reconciliation, without a payload, and the
\* error names the side that failed.
C9_FetchFailureNamesSide ==
    (Done /\ entry = "appsecond" /\ (IssueFetchFailed \/ ReceivedFetchFailed)) =>
        /\ response.outcome = "raised"
        /\ merged = NoFrame /\ issue_grouped = NoFrame /\ received_grouped = NoFrame
        /\ InSeq(FailedIssue, response.detail) \/ InSeq(FailedReceived, response.detail)
        /\ InSeq(FailedIssue, response.detail) => IssueFetchFailed
        /\ InSeq(FailedReceived, response.detail) => ReceivedFetchFailed

(***************************************************************************)
(* C10                                                                     *)
(***************************************************************************)
\* C10: in each of the three entry points a row with a null key cell is
\* kept: the reconciled table has a row for its key, that key is the key of
\* no row without a null in that cell, and the row's quantity is the sum
\* over the rows of that key.
C10_NullKeysFormAGroup ==
    (Done /\ Returned) =>
        /\ \A r \in 1..Len(InputIssue.data) :
            LET raw == KeyOfRow(InputIssue, r, InputIssueKeys)
                key == InputKey(InputIssue, r, InputIssueKeys)
            IN  HasNaKey(raw) =>
                /\ \E m \in 1..Len(merged.data) :
                      /\ KeyOfRow(merged, m, OnKeys) = key
                      /\ Cell(merged, merged.data[m], IssueQtyName)
                            = Num(Total(InputIssue, InputIssueKeys, key, TransferQty))
                /\ \A q \in 1..Len(InputIssue.data) :
                      InputKey(InputIssue, q, InputIssueKeys) = key
                          => \A k \in 1..Len(raw) :
                                IsNa(raw[k]) <=> IsNa(KeyOfRow(InputIssue, q, InputIssueKeys)[k])
        /\ \A r \in 1..Len(InputReceived.data) :
            LET raw == KeyOfRow(InputReceived, r, InputReceivedKeys)
                key == InputKey(InputReceived, r, InputReceivedKeys)
            IN  HasNaKey(raw) =>
                /\ \E m \in 1..Len(merged.data) :
                      /\ KeyOfRow(merged, m, OnKeys) = key
                      /\ Cell(merged, merged.data[m], ReceivedQtyName)
                            = Num(Total(InputReceived, InputReceivedKeys, key, RcvdQty))
                /\ \A q \in 1..Len(InputReceived.data) :
                      InputKey(InputReceived, q, InputReceivedKeys) = key
                          => \A k \in 1..Len(raw) :
                                IsNa(raw[k]) <=> IsNa(KeyOfRow(InputReceived, q, InputReceivedKeys)[k])

=============================================================================
